---- MODULE Spec2Model ----
(***************************************************************************)
(* Model of the setlist ordering engine of DJ-Setlist-Generator:           *)
(* Playlist.extract_tracks / select_first_song / select_next_song and      *)
(* Track.calculate_camelot_key / calculate_similarity_scores /             *)
(* calculate_key_compatibility_score, in both variants of the script       *)
(* (src/src/setlist_generator.py, the command line one, and                *)
(* src/src/streamlit_app.py).                                              *)
(*                                                                         *)
(* Conventions.  A Python str is a sequence of one-character strings, so   *)
(* that lower(), slicing, `in` and int() are computed.  Python's None is   *)
(* the value None below.  Floats are exact rationals: a tempo is an        *)
(* integer, bpm_range is in hundredths (5 = 0.05), a key compatibility     *)
(* score is in tenths (10 = 1.0), a similarity score is a fraction         *)
(* <<numerator, denominator>>.  A Track object is its index in the list    *)
(* extract_tracks built (Python compares Track objects by identity).       *)
(***************************************************************************)
EXTENDS Integers, Sequences, FiniteSets, TLC

VARIABLES
    variant,            \* "cli" (setlist_generator.py) or "streamlit" (streamlit_app.py)
    items,              \* what the catalogue returns for the playlist, in order
    heap,               \* the Track objects: heap[i] is the i-th Track created
    tracks,             \* Playlist.tracks, a list of Track objects
    first_song,         \* the argument of the current select_first_song call
    setlist,            \* select_next_song's setlist
    remaining_tracks,   \* select_next_song's remaining_tracks
    bpm_range,          \* select_next_song's bpm_range, in hundredths
    max_songs,          \* select_next_song's max_songs
    pc,                 \* "extract", "first", "prompt", "next", "done", "raised"
    error               \* the exception last raised ("" when none)

vars == <<variant, items, heap, tracks, first_song, setlist, remaining_tracks,
          bpm_range, max_songs, pc, error>>

\* -------------------------------------------------------------------------
\* Bounds and program constants

\* The largest playlist drawn.
MaxTracks == 3

\* bpm_range=0.05, in hundredths.
DefaultBpmRange == 5

\* bpm_range = 0.08, in hundredths.
WidenedBpmRange == 8

\* max_songs=30.
DefaultMaxSongs == 30

\* -------------------------------------------------------------------------
\* Python values

None == <<"None">>

UpperCase == <<"A", "B", "C", "D", "E", "M", "N", "O", "Q", "R", "X", "Y", "Z">>

LowerCase == <<"a", "b", "c", "d", "e", "m", "n", "o", "q", "r", "x", "y", "z">>

\* str.lower() on one character.
LowerChar(c) ==
    IF \E i \in 1..Len(UpperCase) : UpperCase[i] = c
    THEN LowerCase[CHOOSE i \in 1..Len(UpperCase) : UpperCase[i] = c]
    ELSE c

\* str.lower().
Lower(s) == [i \in 1..Len(s) |-> LowerChar(s[i])]

\* sub in s, for two strs.
Contains(sub, s) ==
    \E i \in 0..(Len(s) - Len(sub)) : SubSeq(s, i + 1, i + Len(sub)) = sub

RECURSIVE Join(_, _)
\* sep.join(parts).
Join(sep, parts) ==
    IF Len(parts) = 0 THEN <<>>
    ELSE IF Len(parts) = 1 THEN parts[1]
    ELSE parts[1] \o sep \o Join(sep, Tail(parts))

\* bool(x) for x a str or None.
Truthy(x) == x # None /\ x # <<>>

\* list.remove(x): the list without its first element equal to x.
Remove(list, x) ==
    LET i == CHOOSE k \in 1..Len(list) :
                 list[k] = x /\ \A j \in 1..(k - 1) : list[j] # x
    IN  SubSeq(list, 1, i - 1) \o SubSeq(list, i + 1, Len(list))

Range(list) == {list[i] : i \in 1..Len(list)}

\* -------------------------------------------------------------------------
\* Track

\* Track.__init__: camelot_key starts as None; key_compatibility_score is an
\* attribute select_next_song adds later (-1 while the object has none).
NewTrack(track_id, track_info, audio_features, artists) ==
    [track_id |-> track_id,
     track_name |-> track_info.name,
     audio_features |-> audio_features,
     artists |-> artists,
     camelot_key |-> None,
     key_compatibility_score |-> -1]

\* The camelot_map literal of calculate_camelot_key.
camelot_map ==
    (<<0, 0>> :> <<"5", "A">>) @@ (<<0, 1>> :> <<"8", "B">>) @@
    (<<1, 0>> :> <<"1", "2", "A">>) @@ (<<1, 1>> :> <<"3", "B">>) @@
    (<<2, 0>> :> <<"7", "A">>) @@ (<<2, 1>> :> <<"1", "0", "B">>) @@
    (<<3, 0>> :> <<"2", "A">>) @@ (<<3, 1>> :> <<"3", "B">>) @@
    (<<4, 0>> :> <<"9", "A">>) @@ (<<4, 1>> :> <<"1", "2", "B">>) @@
    (<<5, 0>> :> <<"4", "A">>) @@ (<<5, 1>> :> <<"7", "B">>) @@
    (<<6, 0>> :> <<"1", "1", "A">>) @@ (<<6, 1>> :> <<"2", "B">>) @@
    (<<7, 0>> :> <<"6", "A">>) @@ (<<7, 1>> :> <<"9", "B">>) @@
    (<<8, 0>> :> <<"1", "A">>) @@ (<<8, 1>> :> <<"4", "B">>) @@
    (<<9, 0>> :> <<"8", "A">>) @@ (<<9, 1>> :> <<"1", "1", "B">>) @@
    (<<10, 0>> :> <<"3", "A">>) @@ (<<10, 1>> :> <<"6", "B">>) @@
    (<<11, 0>> :> <<"1", "0", "A">>) @@ (<<11, 1>> :> <<"1", "B">>)

\* Track.calculate_camelot_key: the value it stores in self.camelot_key.
\* It raises nothing: a pair outside the table gets None.
calculate_camelot_key(key, mode) ==
    IF <<key, mode>> \in DOMAIN camelot_map THEN camelot_map[<<key, mode>>]
    ELSE None

Digits == <<"0", "1", "2", "3", "4", "5", "6", "7", "8", "9">>

DigitValue(c) == (CHOOSE d \in 1..10 : Digits[d] = c) - 1

RECURSIVE ParseInt(_)
\* int(s) for a str of decimal digits.
ParseInt(s) ==
    IF Len(s) = 0 THEN 0
    ELSE 10 * ParseInt(SubSeq(s, 1, Len(s) - 1)) + DigitValue(s[Len(s)])

\* key[-1] and key[:-1].
LastChar(key) == key[Len(key)]

ButLast(key) == SubSeq(key, 1, Len(key) - 1)

\* The notation of a position of the Camelot wheel, as the str the class
\* handles: str(number) + letter.
Notation(number, letter) ==
    (IF number >= 10 THEN <<Digits[(number \div 10) + 1]>> ELSE <<>>)
        \o <<Digits[(number % 10) + 1], letter>>

Notations == {Notation(number, letter) : number \in 1..12, letter \in {"A", "B"}}

\* Whether calculate_key_compatibility_score raises TypeError: it subscripts
\* key1 and key2 as soon as they differ, and None has no subscript.
KeyCompatibilityRaises(self, other_track) ==
    LET key1 == self.camelot_key
        key2 == other_track.camelot_key
    IN  key1 # key2 /\ (key1 = None \/ key2 = None)

\* The score with the parallel-key rule tested before the relative-key rule.
KeyCompatibilityParallelFirst(self, other_track) ==
    LET key1 == self.camelot_key
        key2 == other_track.camelot_key
        key1_num == ParseInt(ButLast(key1))
        key2_num == ParseInt(ButLast(key2))
    IN  IF key1 = key2 THEN 10
        ELSE IF ButLast(key1) = ButLast(key2) /\ LastChar(key1) # LastChar(key2) THEN 6
        ELSE IF LastChar(key1) # LastChar(key2) /\ ButLast(key1) = ButLast(key2) THEN 9
        ELSE IF (key1_num - key2_num) % 12 = 7 /\ LastChar(key1) = LastChar(key2) THEN 8
        ELSE IF (key2_num - key1_num) % 12 = 7 /\ LastChar(key1) = LastChar(key2) THEN 8
        ELSE IF (key1_num - key2_num) % 12 = 7 /\ LastChar(key1) # LastChar(key2) THEN 7
        ELSE IF (key2_num - key1_num) % 12 = 7 /\ LastChar(key1) # LastChar(key2) THEN 7
        ELSE IF (key1_num - key2_num) % 12 = 5 /\ LastChar(key1) # LastChar(key2) THEN 7
        ELSE IF (key2_num - key1_num) % 12 = 5 /\ LastChar(key1) # LastChar(key2) THEN 7
        ELSE 0

\* The score with the perfect fifth tested in one direction only.
KeyCompatibilityOneDirection(self, other_track) ==
    LET key1 == self.camelot_key
        key2 == other_track.camelot_key
        key1_num == ParseInt(ButLast(key1))
        key2_num == ParseInt(ButLast(key2))
    IN  IF key1 = key2 THEN 10
        ELSE IF LastChar(key1) # LastChar(key2) /\ ButLast(key1) = ButLast(key2) THEN 9
        ELSE IF (key1_num - key2_num) % 12 = 7 /\ LastChar(key1) = LastChar(key2) THEN 8
        ELSE IF (key1_num - key2_num) % 12 = 7 /\ LastChar(key1) # LastChar(key2) THEN 7
        ELSE IF (key2_num - key1_num) % 12 = 7 /\ LastChar(key1) # LastChar(key2) THEN 7
        ELSE IF (key1_num - key2_num) % 12 = 5 /\ LastChar(key1) # LastChar(key2) THEN 7
        ELSE IF (key2_num - key1_num) % 12 = 5 /\ LastChar(key1) # LastChar(key2) THEN 7
        ELSE IF ButLast(key1) = ButLast(key2) /\ LastChar(key1) # LastChar(key2) THEN 6
        ELSE 0

\* Track.calculate_key_compatibility_score, in tenths, where it returns.
calculate_key_compatibility_score(self, other_track) ==
    LET key1 == self.camelot_key
        key2 == other_track.camelot_key
        key1_num == ParseInt(ButLast(key1))
        key2_num == ParseInt(ButLast(key2))
    IN  IF key1 = key2 THEN 10
        ELSE IF LastChar(key1) # LastChar(key2) /\ ButLast(key1) = ButLast(key2) THEN 9
        ELSE IF (key1_num - key2_num) % 12 = 7 /\ LastChar(key1) = LastChar(key2) THEN 8
        ELSE IF (key2_num - key1_num) % 12 = 7 /\ LastChar(key1) = LastChar(key2) THEN 8
        ELSE IF (key1_num - key2_num) % 12 = 7 /\ LastChar(key1) # LastChar(key2) THEN 7
        ELSE IF (key2_num - key1_num) % 12 = 7 /\ LastChar(key1) # LastChar(key2) THEN 7
        ELSE IF (key1_num - key2_num) % 12 = 5 /\ LastChar(key1) # LastChar(key2) THEN 7
        ELSE IF (key2_num - key1_num) % 12 = 5 /\ LastChar(key1) # LastChar(key2) THEN 7
        ELSE IF ButLast(key1) = ButLast(key2) /\ LastChar(key1) # LastChar(key2) THEN 6
        ELSE 0

\* The feature list calculate_similarity_scores builds, in its order.
Features(track) ==
    <<track.audio_features.speechiness, track.audio_features.acousticness,
      track.audio_features.instrumentalness, track.audio_features.liveness,
      track.audio_features.valence, track.audio_features.tempo>>

RECURSIVE Dot(_, _)
Dot(u, v) == IF Len(u) = 0 THEN 0 ELSE u[1] * v[1] + Dot(Tail(u), Tail(v))

RECURSIVE Sum(_)
Sum(u) == IF Len(u) = 0 THEN 0 ELSE u[1] + Sum(Tail(u))

RECURSIVE Largest(_)
Largest(u) ==
    IF Len(u) = 0 THEN 0
    ELSE CHOOSE m \in {IF u[1] > rest THEN u[1] ELSE rest : rest \in {Largest(Tail(u))}} : TRUE

\* The Euclidean norm of a feature list of non-negative numbers (the lists
\* drawn have whole norms); it lies between the largest entry and the sum
\* of the entries.
Norm(u) ==
    CHOOSE n \in UNION {{k \in Largest(u)..Sum(u) : k * k = square} :
                           square \in {Dot(u, u)}} : TRUE

RECURSIVE GCD(_, _)
GCD(a, b) == IF b = 0 THEN a ELSE CHOOSE g \in {GCD(b, r) : r \in {a % b}} : TRUE

\* A fraction in lowest terms.
Fraction(n, d) ==
    CHOOSE f \in {<<p[1] \div g, p[2] \div g>> : p \in {<<n, d>>}, g \in {GCD(n, d)}} : TRUE

\* sklearn's cosine_similarity of two rows: the dot product of the rows
\* normalised (a row of norm 0 is left as it is).
cosine_similarity(u, v) ==
    LET nu == IF Norm(u) = 0 THEN 1 ELSE Norm(u)
        nv == IF Norm(v) = 0 THEN 1 ELSE Norm(v)
    IN  Fraction(Dot(u, v), nu * nv)

\* {genre for artist in track.artists for genre in artist['artist_genres']}.
Genres(track) ==
    UNION {track.artists[i].artist_genres : i \in 1..Len(track.artists)}

\* Whether calculate_similarity_scores raises ZeroDivisionError: the genre
\* similarity divides by the size of the union of the two genre sets.
SimilarityRaises(self, other_track) ==
    Cardinality(Genres(self) \cup Genres(other_track)) = 0

\* Track.calculate_similarity_scores, where it returns:
\* <<audio_similarity, genre_similarity>>.
calculate_similarity_scores(self, other_track) ==
    <<cosine_similarity(Features(self), Features(other_track)),
      Fraction(Cardinality(Genres(self) \cap Genres(other_track)),
               Cardinality(Genres(self) \cup Genres(other_track)))>>

\* similarity_score = 0.9 * audio_sim + 0.1 * genre_sim.
SimilarityScore(self, other_track) ==
    CHOOSE similarity_score \in
        {Fraction(9 * sims[1][1] * sims[2][2] + sims[2][1] * sims[1][2],
                  10 * sims[1][2] * sims[2][2]) :
            sims \in {calculate_similarity_scores(self, other_track)}} : TRUE

\* Comparison of a similarity score (a fraction) with a key compatibility
\* score (in tenths).
ScoreGreater(similarity_score, tenths) ==
    10 * similarity_score[1] > tenths * similarity_score[2]

ScoreEqual(similarity_score, tenths) ==
    10 * similarity_score[1] = tenths * similarity_score[2]

\* -------------------------------------------------------------------------
\* The catalogue: what sp.playlist_tracks, sp.audio_features and sp.artist
\* return for an item of the playlist.  Features are in one common unit
\* (neither the tempo window nor the cosine depends on the unit).

Item(name, artists, key, mode, tempo, valence) ==
    [track_info |-> [name |-> name],
     artists |-> artists,
     audio_features |->
        [key |-> key, mode |-> mode, tempo |-> tempo, speechiness |-> 0,
         acousticness |-> 0, instrumentalness |-> 0, liveness |-> 0,
         valence |-> valence]]

Artist(name, genres) == [artist_name |-> name, artist_genres |-> genres]

Catalogue ==
    { Item(<<"A", "b">>, <<Artist(<<"X", "y">>, {"house"})>>, 9, 0, 100, 0),
      Item(<<"B", "c">>,
           <<Artist(<<"X", "y">>, {"house"}), Artist(<<"Z">>, {"techno"})>>,
           9, 0, 104, 78),
      Item(<<"C">>, <<Artist(<<"A", "b">>, {"techno"})>>, 0, 1, 100, 75),
      Item(<<"D">>, <<Artist(<<"X", "y">>, {"house"})>>, 10, 0, 107, 0),
      Item(<<"E">>, <<Artist(<<"Z">>, {})>>, 1, 1, 120, 0),
      Item(<<"M">>, <<Artist(<<"X", "y">>, {"house"})>>, -1, 0, 104, 0) }

RECURSIVE Playlists(_)
\* The playlists of n items.
Playlists(n) ==
    IF n = 0 THEN {<<>>}
    ELSE {Append(p, item) : p \in Playlists(n - 1), item \in Catalogue}

\* The arguments select_first_song is called with (None: no argument).
Hints ==
    { None,
      <<"A", "B">>,
      <<"c", " ", "-", " ", "x", "y", ",", " ", "z">>,
      <<"Q">> }

\* What the user types at the retry prompt.
Responses == { <<"R", "a", "n", "d", "o", "m">>, <<"D">>, <<"Q">> }

\* The values of max_songs.
MaxSongsChoices == {1, 2, DefaultMaxSongs}

\* -------------------------------------------------------------------------
\* Playlist

Init ==
    /\ variant \in {"cli", "streamlit"}
    /\ items \in UNION {Playlists(n) : n \in 0..MaxTracks}
    /\ heap = <<>>
    /\ tracks = <<>>
    /\ first_song \in Hints
    /\ setlist = <<>>
    /\ remaining_tracks = <<>>
    /\ bpm_range = DefaultBpmRange
    /\ max_songs \in MaxSongsChoices
    /\ pc = "extract"
    /\ error = ""

\* The Track extract_tracks creates for one item: Track(...) and then
\* new_track.calculate_camelot_key().
ExtractedTrack(track_id, item) ==
    [NewTrack(track_id, item.track_info, item.audio_features, item.artists)
        EXCEPT !.camelot_key =
            calculate_camelot_key(item.audio_features.key, item.audio_features.mode)]

\* Playlist.__init__ / extract_tracks: one Track per item, in order.
extract_tracks ==
    /\ pc = "extract"
    /\ heap' = [i \in 1..Len(items) |-> ExtractedTrack(i, items[i])]
    /\ tracks' = [i \in 1..Len(items) |-> i]
    /\ pc' = "first"
    /\ UNCHANGED <<variant, items, first_song, setlist, remaining_tracks,
                   bpm_range, max_songs, error>>

\* f"{track.track_name.lower()} - {', '.join(artist['artist_name'].lower()
\* for artist in track.artists)}".
SearchString(track) ==
    Lower(track.track_name) \o <<" ", "-", " ">> \o
    Join(<<",", " ">>,
         [i \in 1..Len(track.artists) |-> Lower(track.artists[i].artist_name)])

\* FirstMatch taking the last match.
LastMatch(hint) ==
    LET first_song_lower == Lower(hint)
        Matches(k) == Contains(first_song_lower, SearchString(heap[tracks[k]]))
    IN  IF \E k \in 1..Len(tracks) : Matches(k)
        THEN CHOOSE k \in 1..Len(tracks) :
                 Matches(k) /\ \A j \in (k + 1)..Len(tracks) : ~Matches(j)
        ELSE 0

\* next((track for track in self.tracks if first_song_lower in ...), None):
\* the position in self.tracks of the first match, 0 for None.
FirstMatch(hint) ==
    LET first_song_lower == Lower(hint)
        Matches(k) == Contains(first_song_lower, SearchString(heap[tracks[k]]))
    IN  IF \E k \in 1..Len(tracks) : Matches(k)
        THEN CHOOSE k \in 1..Len(tracks) :
                 Matches(k) /\ \A j \in 1..(k - 1) : ~Matches(j)
        ELSE 0

\* ReturnFirstSong with the copy taken before the remove.
ReturnFirstSongKeepsOpener(song) ==
    /\ tracks' = Remove(tracks, song)
    /\ setlist' = <<song>>
    /\ remaining_tracks' = tracks
    /\ bpm_range' = DefaultBpmRange
    /\ pc' = "next"
    /\ error' = ""
    /\ UNCHANGED <<variant, items, heap, first_song, max_songs>>

\* self.tracks.remove(first_song); return [first_song], self.tracks.copy()
\* and the caller's select_next_song(setlist, remaining_tracks).
ReturnFirstSong(song) ==
    /\ tracks' = Remove(tracks, song)
    /\ setlist' = <<song>>
    /\ remaining_tracks' = Remove(tracks, song)
    /\ bpm_range' = DefaultBpmRange
    /\ pc' = "next"
    /\ error' = ""
    /\ UNCHANGED <<variant, items, heap, first_song, max_songs>>

\* RaiseInFirstSong without the except clause of setlist_generator.py.
RaiseInFirstSongUncaught(exception) ==
    /\ pc' = "raised"
    /\ error' = exception
    /\ UNCHANGED <<variant, items, heap, tracks, first_song, setlist,
                   remaining_tracks, bpm_range, max_songs>>

\* An exception in select_first_song: streamlit_app.py lets it reach the
\* caller; setlist_generator.py catches it, prints it and prompts.
RaiseInFirstSong(exception) ==
    /\ pc' = IF variant = "cli" THEN "prompt" ELSE "raised"
    /\ error' = exception
    /\ UNCHANGED <<variant, items, heap, tracks, first_song, setlist,
                   remaining_tracks, bpm_range, max_songs>>

\* Playlist.select_first_song, up to its return or its exception.
select_first_song ==
    /\ pc = "first"
    /\ \/ /\ Truthy(first_song)
          /\ FirstMatch(first_song) # 0
          /\ ReturnFirstSong(tracks[FirstMatch(first_song)])
       \/ /\ Truthy(first_song)
          /\ FirstMatch(first_song) = 0
          /\ RaiseInFirstSong("ValueError")
       \/ /\ ~Truthy(first_song)
          /\ \E song \in Range(tracks) : ReturnFirstSong(song)
       \/ /\ ~Truthy(first_song)
          /\ tracks = <<>>
          /\ RaiseInFirstSong("IndexError")

\* setlist_generator.py's except clause: the answer to the prompt,
\* lower-cased, is 'random' (select_first_song()) or the next hint
\* (select_first_song(response)).
RetryFirstSong ==
    /\ pc = "prompt"
    /\ \E response \in Responses :
          first_song' = IF Lower(response) = <<"r", "a", "n", "d", "o", "m">>
                        THEN None ELSE Lower(response)
    /\ pc' = "first"
    /\ error' = ""
    /\ UNCHANGED <<variant, items, heap, tracks, setlist, remaining_tracks,
                   bpm_range, max_songs>>

\* InBpmRange without the upper end of the window.
InBpmRangeNoUpperEnd(tempo, current_bpm, range) ==
    current_bpm * (100 - range) <= 100 * tempo

\* bpm_min <= song.audio_features['tempo'] <= bpm_max, with
\* bpm_min, bpm_max = current_bpm * (1 - bpm_range), current_bpm * (1 + bpm_range).
InBpmRange(tempo, current_bpm, range) ==
    /\ current_bpm * (100 - range) <= 100 * tempo
    /\ 100 * tempo <= current_bpm * (100 + range)

\* filtered_songs.
FilteredSongs(current_song, range) ==
    LET Fits(song) ==
            InBpmRange(heap[song].audio_features.tempo,
                       current_song.audio_features.tempo, range)
    IN  SelectSeq(remaining_tracks, Fits)

\* The position in filtered_songs of the first song whose score raises
\* TypeError, 0 when none does.
FirstRaising(current_song, filtered_songs) ==
    LET Raises(k) == KeyCompatibilityRaises(current_song, heap[filtered_songs[k]])
    IN  IF \E k \in 1..Len(filtered_songs) : Raises(k)
        THEN CHOOSE k \in 1..Len(filtered_songs) :
                 Raises(k) /\ \A j \in 1..(k - 1) : ~Raises(j)
        ELSE 0

\* The heap after the scoring loop has set key_compatibility_score on the
\* first n songs of filtered_songs.
Scored(current_song, filtered_songs, n) ==
    [id \in DOMAIN heap |->
        IF \E k \in 1..n : filtered_songs[k] = id
        THEN [heap[id] EXCEPT !.key_compatibility_score =
                 calculate_key_compatibility_score(current_song, heap[id])]
        ELSE heap[id]]

\* Insert for a sort without reverse=True.
InsertAscending(x, list, objects) ==
    LET Before(k) ==
            objects[list[k]].key_compatibility_score <= objects[x].key_compatibility_score
        n == Cardinality({k \in 1..Len(list) : Before(k)})
    IN  SubSeq(list, 1, n) \o <<x>> \o SubSeq(list, n + 1, Len(list))

\* x put into a list sorted by decreasing score, after the songs that score
\* at least as much (sorted is stable, also with reverse=True).
Insert(x, list, objects) ==
    LET Before(k) ==
            objects[list[k]].key_compatibility_score >= objects[x].key_compatibility_score
        n == Cardinality({k \in 1..Len(list) : Before(k)})
    IN  SubSeq(list, 1, n) \o <<x>> \o SubSeq(list, n + 1, Len(list))

RECURSIVE Sorted(_, _)
\* sorted(filtered_songs, key=lambda x: x.key_compatibility_score, reverse=True).
Sorted(list, objects) ==
    IF Len(list) = 0 THEN <<>>
    ELSE Insert(list[Len(list)], Sorted(SubSeq(list, 1, Len(list) - 1), objects), objects)

RECURSIVE CandidateLoop(_, _, _, _, _)
\* The loop over sorted_songs[1:], from position i with top_candidates as it
\* stands: [raised, top_candidates] at its end, its break or its exception.
CandidateLoop(current_song, sorted_songs, objects, top_candidates, i) ==
    IF i > Len(sorted_songs) THEN [raised |-> FALSE, top_candidates |-> top_candidates]
    ELSE
        LET candidate == sorted_songs[i]
            top_score == objects[top_candidates[1]].key_compatibility_score
        IN  IF objects[candidate].key_compatibility_score = top_score
            THEN IF SimilarityRaises(current_song, objects[candidate])
                 THEN [raised |-> TRUE, top_candidates |-> top_candidates]
                 ELSE LET similarity_score ==
                              SimilarityScore(current_song, objects[candidate])
                      IN  IF ScoreGreater(similarity_score, top_score)
                          THEN CandidateLoop(current_song, sorted_songs, objects,
                                             <<candidate>>, i + 1)
                          ELSE IF ScoreEqual(similarity_score, top_score)
                          THEN CandidateLoop(current_song, sorted_songs, objects,
                                             Append(top_candidates, candidate), i + 1)
                          ELSE CandidateLoop(current_song, sorted_songs, objects,
                                             top_candidates, i + 1)
            ELSE [raised |-> FALSE, top_candidates |-> top_candidates]

\* top_candidates = [sorted_songs[0]] and the loop over the rest.
TopCandidates(current_song, sorted_songs, objects) ==
    CandidateLoop(current_song, sorted_songs, objects, <<sorted_songs[1]>>, 2)

\* Continues with <= for <.
ContinuesOneMore == Len(remaining_tracks) > 0 /\ Len(setlist) <= max_songs

\* The loop condition of select_next_song.
Continues == Len(remaining_tracks) > 0 /\ Len(setlist) < max_songs

\* The window grown by the difference of the two fractions at each widening.
IncreaseBpmRangeByStep ==
    bpm_range' = bpm_range + (WidenedBpmRange - DefaultBpmRange)

\* The else branch of "if sorted_songs": bpm_range = 0.08.
IncreaseBpmRange == bpm_range' = WidenedBpmRange

\* Playlist.select_next_song: its return, or one iteration of its loop.
\* (Each local of the iteration is bound once, as a value.)
select_next_song ==
    /\ pc = "next"
    /\ \E current_song \in {heap[setlist[Len(setlist)]]} :
       \E filtered_songs \in {FilteredSongs(current_song, bpm_range)} :
       \E raising \in {FirstRaising(current_song, filtered_songs)} :
       \E scored \in {Scored(current_song, filtered_songs,
                             IF raising = 0 THEN Len(filtered_songs) ELSE raising - 1)} :
       \E sorted_songs \in {IF raising = 0 THEN Sorted(filtered_songs, scored) ELSE <<>>} :
       \E loop \in {IF Len(sorted_songs) > 0
                    THEN TopCandidates(current_song, sorted_songs, scored)
                    ELSE [raised |-> FALSE, top_candidates |-> <<>>]} :
           \/ /\ ~Continues
              /\ pc' = "done"
              /\ UNCHANGED <<heap, setlist, remaining_tracks, bpm_range, error>>
           \/ /\ Continues
              /\ raising # 0
              /\ heap' = scored
              /\ pc' = "raised"
              /\ error' = "TypeError"
              /\ UNCHANGED <<setlist, remaining_tracks, bpm_range>>
           \/ /\ Continues
              /\ raising = 0
              /\ Len(sorted_songs) = 0
              /\ IncreaseBpmRange
              /\ UNCHANGED <<heap, setlist, remaining_tracks, pc, error>>
           \/ /\ Continues
              /\ raising = 0
              /\ Len(sorted_songs) > 0
              /\ loop.raised
              /\ heap' = scored
              /\ pc' = "raised"
              /\ error' = "ZeroDivisionError"
              /\ UNCHANGED <<setlist, remaining_tracks, bpm_range>>
           \/ /\ Continues
              /\ raising = 0
              /\ Len(sorted_songs) > 0
              /\ ~loop.raised
              /\ \E next_song \in Range(loop.top_candidates) :
                    /\ remaining_tracks' = Remove(remaining_tracks, next_song)
                    /\ setlist' = Append(setlist, next_song)
              /\ heap' = scored
              /\ UNCHANGED <<bpm_range, pc, error>>
    /\ UNCHANGED <<variant, items, tracks, first_song, max_songs>>

Next ==
    \/ extract_tracks
    \/ select_first_song
    \/ RetryFirstSong
    \/ select_next_song

Spec == Init /\ [][Next]_vars

\* -------------------------------------------------------------------------
\* The key table on its own: playlists of two items whose (key, mode) are
\* drawn from the Spotify pitch classes (with -1, no key detected) and the
\* two modes, turned into Tracks by extract_tracks.

KeyItems ==
    { Item(<<"K">>, <<Artist(<<"X">>, {"house"})>>, key, mode, 100, 0) :
        key \in -1..11, mode \in 0..1 }

KeyInit ==
    /\ variant \in {"cli", "streamlit"}
    /\ items \in {<<a, b>> : a \in KeyItems, b \in KeyItems}
    /\ heap = <<>>
    /\ tracks = <<>>
    /\ first_song = None
    /\ setlist = <<>>
    /\ remaining_tracks = <<>>
    /\ bpm_range = DefaultBpmRange
    /\ max_songs = DefaultMaxSongs
    /\ pc = "extract"
    /\ error = ""

KeySpec == KeyInit /\ [][extract_tracks]_vars

\* -------------------------------------------------------------------------
\* The key score on its own: a setlist of one track and one remaining track
\* of the same tempo, whose camelot_key attributes are drawn from all the
\* notations of the wheel (the key table does not yield every one of them),
\* handed to select_next_song, which scores the remaining track.

ScoreTrack(track_id, notation) ==
    [NewTrack(track_id, [name |-> <<"K">>],
              [key |-> -1, mode |-> 0, tempo |-> 100, speechiness |-> 0,
               acousticness |-> 0, instrumentalness |-> 0, liveness |-> 0,
               valence |-> 0],
              <<Artist(<<"X">>, {"house"})>>)
        EXCEPT !.camelot_key = notation]

ScoreInit ==
    /\ variant \in {"cli", "streamlit"}
    /\ items = <<>>
    /\ \E key1 \in Notations : \E key2 \in Notations :
          heap = <<ScoreTrack(1, key1), ScoreTrack(2, key2)>>
    /\ tracks = <<2>>
    /\ first_song = None
    /\ setlist = <<1>>
    /\ remaining_tracks = <<2>>
    /\ bpm_range = DefaultBpmRange
    /\ max_songs = DefaultMaxSongs
    /\ pc = "next"
    /\ error = ""

ScoreSpec == ScoreInit /\ [][select_next_song]_vars

\* -------------------------------------------------------------------------
\* Vocabulary of the properties

\* The build is past select_first_song: a setlist exists.
Building == Len(setlist) > 0

Tempo(song) == heap[song].audio_features.tempo

\* tempo lies in [current * (1 - w), current * (1 + w)], w in hundredths.
WithinFraction(tempo, current, w) ==
    /\ 100 * tempo >= current * (100 - w)
    /\ 100 * tempo <= current * (100 + w)

\* This step of select_next_song appends a track to the setlist.
Appends ==
    /\ pc = "next"
    /\ Len(setlist') = Len(setlist) + 1
    /\ SubSeq(setlist', 1, Len(setlist)) = setlist

\* In a step that appends: the track appended, and the last track before it.
Appended == setlist'[Len(setlist')]

Current == setlist[Len(setlist)]

\* The remaining tracks inside the tempo window of the last track.
InWindow ==
    {song \in Range(remaining_tracks) :
        WithinFraction(Tempo(song), Tempo(Current), bpm_range)}

Compatibility(a, b) == calculate_key_compatibility_score(heap[a], heap[b])

\* The in-window tracks of maximal key compatibility with the last track.
TieGroup ==
    {song \in InWindow :
        \A other \in InWindow :
            Compatibility(Current, song) >= Compatibility(Current, other)}

\* a > b for two fractions with positive denominators.
FractionGreater(a, b) == a[1] * b[2] > b[1] * a[2]

\* -------------------------------------------------------------------------
\* C1: select_next_song terminates: in every state inside its loop it has
\* a step that changes the state (it returns, raises, places a track or
\* widens the window), so no iteration leaves everything as it was and
\* repeats for ever; in particular it returns when no remaining track is
\* inside the widened tempo window.
C1_BuildTerminates == pc = "next" => ENABLED <<select_next_song>>_vars

\* C2: once the opener is chosen, the setlist and the remaining tracks are
\* disjoint, neither holds a track twice, and together they hold exactly the
\* tracks extract_tracks created.
C2_Partition ==
    Building =>
        /\ Range(setlist) \cap Range(remaining_tracks) = {}
        /\ Cardinality(Range(setlist)) = Len(setlist)
        /\ Cardinality(Range(remaining_tracks)) = Len(remaining_tracks)
        /\ Range(setlist) \cup Range(remaining_tracks) = DOMAIN heap

\* A build that has placed a second track and returned with tracks left.
C2_Witness ==
    pc = "done" /\ Len(setlist) >= 2 /\ Len(remaining_tracks) >= 1

\* C3: a track is appended only if its tempo is inside the window of the
\* last track's tempo for the window fraction in force (0.05, or 0.08 after
\* widening), so consecutive tempos of the setlist differ by at most 8% of
\* the earlier one.
C3_TempoWindow ==
    /\ [][Appends =>
            /\ bpm_range \in {DefaultBpmRange, WidenedBpmRange}
            /\ WithinFraction(Tempo(Appended), Tempo(Current), bpm_range)]_vars
    /\ [](\A i \in 1..(Len(setlist) - 1) :
            WithinFraction(Tempo(setlist[i + 1]), Tempo(setlist[i]), WidenedBpmRange))

\* A track placed after widening: it is outside the 5% window of the track
\* before it.
C3_Witness ==
    /\ pc \in {"next", "done"}
    /\ Len(setlist) >= 2
    /\ bpm_range = WidenedBpmRange
    /\ ~WithinFraction(Tempo(setlist[Len(setlist)]),
                       Tempo(setlist[Len(setlist) - 1]), DefaultBpmRange)

\* C4: the track appended has the maximal key compatibility with the last
\* track among the remaining tracks inside the tempo window; when one track
\* alone attains the maximum, it is the one appended.
C4_MaxCompatibility ==
    [][Appends =>
        /\ Appended \in TieGroup
        /\ (Cardinality(TieGroup) = 1 => TieGroup = {Appended})]_vars

\* The last track was appended although a track of lower compatibility was
\* inside the window too (and still remains).
C4_Witness ==
    /\ pc \in {"next", "done"}
    /\ Len(setlist) >= 2
    /\ LET current == setlist[Len(setlist) - 1]
           placed == setlist[Len(setlist)]
       IN  \E other \in Range(remaining_tracks) :
              /\ WithinFraction(Tempo(other), Tempo(current), bpm_range)
              /\ heap[other].camelot_key # None
              /\ heap[current].camelot_key # None
              /\ Compatibility(current, other) < Compatibility(current, placed)

\* C5: when several in-window tracks share the maximal key compatibility,
\* the track appended has the largest similarity score
\* 0.9 * audio + 0.1 * genre among them.
C5_TieBreakBySimilarity ==
    [][Appends /\ Cardinality(TieGroup) >= 2 =>
        \A other \in TieGroup :
            ~FractionGreater(SimilarityScore(heap[Current], heap[other]),
                             SimilarityScore(heap[Current], heap[Appended]))]_vars

\* C6: the setlist starts with one track, grows by at most one track per
\* step, never holds more than max_songs tracks, and nothing is appended
\* once it holds max_songs.
C6_LengthBound ==
    /\ [](Building => Len(setlist) >= 1 /\ Len(setlist) <= max_songs)
    /\ [][/\ pc = "first" /\ pc' = "next" => Len(setlist') = 1
          /\ pc = "next" =>
                /\ Len(setlist') \in {Len(setlist), Len(setlist) + 1}
                /\ (Len(setlist) >= max_songs => setlist' = setlist)]_vars

\* The build returned because the setlist is full: a remaining track is
\* inside the tempo window of the last one.
C6_Witness ==
    /\ pc = "done"
    /\ Len(setlist) = max_songs
    /\ max_songs >= 2
    /\ \E song \in Range(remaining_tracks) :
          WithinFraction(Tempo(song), Tempo(Current), bpm_range)

\* The string a hint is searched in, and whether a track matches a hint.
MatchesHint(hint, song) == Contains(Lower(hint), SearchString(heap[song]))

\* This step of select_first_song returns an opener chosen by a hint.
OpenerByHint == pc = "first" /\ pc' = "next" /\ Truthy(first_song)

\* C7: with a non-empty hint, select_first_song returns the first track of
\* the pool whose lower-cased "name - artist, artist" contains the
\* lower-cased hint, and the pool it returns is the pool without that one
\* track, the others kept in order.
C7_FirstMatchRemoved ==
    [][OpenerByHint =>
        \E k \in 1..Len(tracks) :
            /\ MatchesHint(first_song, tracks[k])
            /\ \A j \in 1..(k - 1) : ~MatchesHint(first_song, tracks[j])
            /\ setlist' = <<tracks[k]>>
            /\ remaining_tracks' =
                  SubSeq(tracks, 1, k - 1) \o SubSeq(tracks, k + 1, Len(tracks))
            /\ tracks' = remaining_tracks'
            /\ tracks[k] \notin Range(remaining_tracks')]_vars

\* An opener chosen by a hint that a later track matches too, from a pool
\* whose first track does not match.
C7_Witness ==
    /\ pc = "next"
    /\ Len(setlist) = 1
    /\ Truthy(first_song)
    /\ MatchesHint(first_song, setlist[1])
    /\ \E other \in Range(remaining_tracks) :
          other > setlist[1] /\ MatchesHint(first_song, other)
    /\ \E other \in Range(remaining_tracks) :
          other < setlist[1] /\ ~MatchesHint(first_song, other)

\* This step is select_first_song called with a hint no track matches.
NotFound ==
    /\ pc = "first"
    /\ Truthy(first_song)
    /\ \A k \in 1..Len(tracks) : ~MatchesHint(first_song, tracks[k])

C9_EmptyPoolError ==
    [][pc = "first" /\ Len(tracks) = 0 =>
            pc' = "raised" /\ error' = "EmptyPoolError" /\ tracks' = tracks]_vars

\* The 24 pairs of the key table.
ValidKey(key, mode) == key \in 0..11 /\ mode \in 0..1

\* C10: extract_tracks gives every track with a valid (pitch class, mode)
\* pair a notation, and a pair outside the table raises InvalidKeyError: no
\* track is left with the notation None and no error.
C10_InvalidKeyRaises ==
    pc # "extract" =>
        \A id \in DOMAIN heap :
            IF ValidKey(heap[id].audio_features.key, heap[id].audio_features.mode)
            THEN heap[id].camelot_key # None
            ELSE error = "InvalidKeyError"

KeyOf(id) == <<heap[id].audio_features.key, heap[id].audio_features.mode>>

\* C11: the key table is a bijection from the 24 (pitch class, mode) pairs
\* onto the 24 notations 1A..12B: a valid pair gets one of the notations,
\* with letter A for mode 0 and B for mode 1, and two tracks of distinct
\* valid pairs get distinct notations (so that, 24 pairs onto 24 notations,
\* every notation is the image of a pair).
C11_KeyTableBijection ==
    pc # "extract" =>
        \A a \in DOMAIN heap : \A b \in DOMAIN heap :
            (ValidKey(KeyOf(a)[1], KeyOf(a)[2]) /\ ValidKey(KeyOf(b)[1], KeyOf(b)[2])) =>
                /\ heap[a].camelot_key \in Notations
                /\ LastChar(heap[a].camelot_key) = (IF KeyOf(a)[2] = 0 THEN "A" ELSE "B")
                /\ (KeyOf(a) # KeyOf(b) => heap[a].camelot_key # heap[b].camelot_key)

\* Both tracks have no genre at all: every artist's genre list is empty.
BothGenreSetsEmpty(a, b) == Genres(heap[a]) = {} /\ Genres(heap[b]) = {}

\* No in-window track makes the key comparison raise.
KeysComparable ==
    \A song \in InWindow : ~KeyCompatibilityRaises(heap[Current], heap[song])

\* C12: two tracks with both genre sets empty have genre similarity 0 and
\* the computation raises nothing: an iteration of select_next_song whose
\* tie group of maximal compatibility (two tracks or more, so that the
\* similarity is computed) holds a track that has, like the last track, no
\* genre, completes normally and places a track.
C12_EmptyGenresPlaceTrack ==
    [][(/\ pc = "next"
        /\ Continues
        /\ KeysComparable
        /\ Cardinality(TieGroup) >= 2
        /\ \E song \in TieGroup : BothGenreSetsEmpty(Current, song))
       => (Appends /\ pc' = "next" /\ error' = "")]_vars

\* The track select_next_song scored and placed second, and the track it
\* was scored against.
Scored2 == Len(setlist) = 2 /\ heap[setlist[2]].key_compatibility_score # -1

Key1 == heap[setlist[1]].camelot_key

Key2 == heap[setlist[2]].camelot_key

\* C13: the key score is symmetric: the score select_next_song stored for
\* the second track, calculate_key_compatibility_score of the first track
\* with the second, equals the score of the second track with the first,
\* for every pair of notations of {1..12} x {A, B}.
C13_ScoreSymmetric ==
    Scored2 =>
        heap[setlist[2]].key_compatibility_score
            = calculate_key_compatibility_score(heap[setlist[2]], heap[setlist[1]])

\* 1A scored with 8A: only the second of the two perfect-fifth tests, the
\* one on key2_num - key1_num, gives them 0.8.
C13_Witness ==
    /\ Scored2
    /\ Key1 = Notation(1, "A")
    /\ Key2 = Notation(8, "A")
    /\ heap[setlist[2]].key_compatibility_score = 8

\* The ordered rule list of the key score on wheel positions (number,
\* letter), in tenths: the score of the first rule that matches.
RuleScore(n1, l1, n2, l2) ==
    IF n1 = n2 /\ l1 = l2 THEN 10
    ELSE IF n1 = n2 /\ l1 # l2 THEN 9
    ELSE IF l1 = l2 /\ ((n1 - n2) % 12 = 7 \/ (n2 - n1) % 12 = 7) THEN 8
    ELSE IF l1 # l2 /\ ((n1 - n2) % 12 \in {5, 7} \/ (n2 - n1) % 12 \in {5, 7}) THEN 7
    ELSE IF n1 = n2 /\ l1 # l2 THEN 6
    ELSE 0

\* C14: the key score is the score of the first matching rule of the list
\* 1.0 identical, 0.9 same number and different letter, 0.8 same letter and
\* numbers 7 apart modulo 12 in either direction, 0.7 different letter and
\* numbers 7 or 5 apart modulo 12, 0.6 same number and different letter if
\* not caught before, 0.0 otherwise; it is always one of these six values,
\* and 1.0 for a notation with itself.
C14_FirstMatchingRule ==
    \A n1 \in 1..12 : \A n2 \in 1..12 : \A l1 \in {"A", "B"} : \A l2 \in {"A", "B"} :
        (Scored2 /\ Key1 = Notation(n1, l1) /\ Key2 = Notation(n2, l2)) =>
            /\ heap[setlist[2]].key_compatibility_score = RuleScore(n1, l1, n2, l2)
            /\ heap[setlist[2]].key_compatibility_score \in {10, 9, 8, 7, 6, 0}
            /\ (Key1 = Key2 => heap[setlist[2]].key_compatibility_score = 10)

\* 8A scored with 8B: the relative-key rule and the parallel-key rule both
\* match, and the first of them gives 0.9.
C14_Witness ==
    /\ Scored2
    /\ Key1 = Notation(8, "A")
    /\ Key2 = Notation(8, "B")
    /\ heap[setlist[2]].key_compatibility_score = 9

\* C15: inside select_next_song the window fraction changes only from 0.05
\* to 0.08, only in an iteration that finds no remaining track inside the
\* window, and that iteration leaves the setlist and the remaining tracks
\* as they were; once 0.08, it stays 0.08, and every track placed later is
\* taken from the 8% window of the track before it.
C15_WindowOnlyWidens ==
    [][pc = "next" =>
        /\ (bpm_range' # bpm_range =>
                /\ bpm_range = DefaultBpmRange
                /\ bpm_range' = WidenedBpmRange
                /\ InWindow = {}
                /\ setlist' = setlist
                /\ remaining_tracks' = remaining_tracks)
        /\ (bpm_range = WidenedBpmRange => bpm_range' = WidenedBpmRange)
        /\ ((Appends /\ bpm_range = WidenedBpmRange) => Appended \in InWindow)]_vars

\* The second track was placed after widening, and the third was placed
\* with the fraction still 0.08 although it is within 5% of the second.
C15_Witness ==
    /\ pc \in {"next", "done"}
    /\ bpm_range = WidenedBpmRange
    /\ Len(setlist) = 3
    /\ ~WithinFraction(Tempo(setlist[2]), Tempo(setlist[1]), DefaultBpmRange)
    /\ WithinFraction(Tempo(setlist[3]), Tempo(setlist[2]), DefaultBpmRange)

====
